---- MODULE Spec2Model ----
(***************************************************************************)
(* Model of grid_royale/gamey/base.py: the Action encoding, order and slug, *)
(* the two turn dispatches (State.get_next_state, NiceState.get_next_state)*)
(* and the rollout generators (State.iterate_states, State.train).         *)
(*                                                                         *)
(* Specifications: Spec (train, no call raises), SpecFail (train, calls of *)
(* a turn may raise), SpecIterate (two iterate_states generators on one    *)
(* state), SpecAction (the Action type) and SpecSlug (Action.slugify).     *)
(*                                                                         *)
(* Python sequences are modelled as TLA+ sequences (position k of the      *)
(* model is index k-1 of the code); a dict is a function whose iteration   *)
(* order, where the code depends on it, is kept as a sequence.             *)
(***************************************************************************)
EXTENDS Integers, Sequences, FiniteSets, TLC

VARIABLES
    n,                \* train: the rollout count argument
    max_game_length,  \* train: the length cap argument
    cls,              \* the class of the states: "State" or "NiceState"
    pc,               \* position of the train / iterate_states generators
    i,                \* train: the loop variable of `for i in range(n)`
    state,            \* iterate_states: the local variable `state`
    start,            \* the state the current rollout's iterate_states was called on
    yielded,          \* <<s>>: the state handed to the consumer by the last yield
    rollout_yielded,  \* number of states yielded in the current rollout
    total_yielded,    \* number of states yielded by train so far
    calls,            \* number of get_next_state calls in the current rollout
    ended_by,         \* how the last rollout ended: "none", "cap" or "exhausted"
    printed,          \* the lines printed so far, as <<rounds, dones>> counters
    factory_calls,    \* number of state_factory() calls so far
    turn,             \* <<t>>: what the last get_next_state call did
    all_actions,      \* Action.all_actions of the action type in use
    _to_neurons,      \* per action: <<>> or <<v>>, the instance attribute _to_neurons
    _n_neurons,       \* <<>> or <<k>>: the class attribute _n_neurons
    ret,              \* the last call on the action type and what it returned
    str_self,         \* slugify: str(self) of the action slugify is called on
    starting_state,   \* the State object the iterate_states calls are made on
    generators        \* per iterate_states generator: its pc, its local `state`
                      \* and the states it has yielded

trainVars == <<n, max_game_length, cls, pc, i, state, start, yielded,
               rollout_yielded, total_yielded, calls, ended_by, printed,
               factory_calls, turn>>

actionVars == <<all_actions, _to_neurons, _n_neurons, ret>>

slugVars == <<str_self>>

iterVars == <<starting_state, generators>>

vars == <<trainVars, actionVars, slugVars, iterVars>>

(***************************************************************************)
(* Bounds of the model.                                                    *)
(***************************************************************************)
MaxN == 2             \* n ranges over 0..MaxN
MaxGameLength == 3    \* max_game_length ranges over 0..MaxGameLength
MaxPlayers == 2       \* player ids are 1..MaxPlayers
MaxActions == 3       \* action types have 1..MaxActions actions
MaxStrLen == 3        \* str(action) has 0..MaxStrLen characters
MaxItems == 3         \* a consumer takes at most MaxItems states from one iterate_states generator
Terminal == 2         \* observations are the levels 0..Terminal, the last one terminal

(***************************************************************************)
(* Generic helpers.                                                        *)
(***************************************************************************)
Range(s) == {s[k] : k \in 1..Len(s)}

\* tuple.index(x) of Python, as a model position (1-based); 0 when absent.
IndexOf(s, x) ==
    IF \E k \in 1..Len(s) : s[k] = x
    THEN CHOOSE k \in 1..Len(s) : s[k] = x /\ \A j \in 1..(k - 1) : s[j] # x
    ELSE 0

\* The elements of s in order of first appearance (keys of an insertion-ordered dict).
RECURSIVE FirstAppearances(_)
FirstAppearances(s) ==
    IF s = <<>> THEN <<>>
    ELSE LET front == FirstAppearances(SubSeq(s, 1, Len(s) - 1))
             last == s[Len(s)]
         IN IF last \in Range(front) THEN front ELSE Append(front, last)

(***************************************************************************)
(* The game-rule side: actions, observations.                              *)
(***************************************************************************)
\* The enumeration of the game's action type.
GameActions == <<"A", "B", "C">>

\* An observation is the level 0..Terminal its player has reached.
Observations == 0..Terminal

is_end_of(observation) == observation = Terminal

\* A terminal observation has no legal actions; action "A" (stay) is legal
\* at level 0 only.
legal_actions(observation) ==
    CASE observation = Terminal -> <<>>
      [] observation = 0 -> <<"A", "B", "C">>
      [] OTHER -> <<"B", "C">>

\* Observation.get_next_observation: action number k advances by k.
get_next_observation(observation, action) ==
    LET step == IndexOf(all_actions, action) - 1
    IN IF observation + step > Terminal THEN Terminal ELSE observation + step

(***************************************************************************)
(* The strategy side.  "g1" decides by its value estimates, with or        *)
(* without a precomputed value-map; "fk" decides by the value-map when it  *)
(* is given one and takes the first action of the enumeration, legal or    *)
(* not, when it is not.                                                    *)
(***************************************************************************)
Strategies == {"g1", "fk"}

QValue(strategy, observation, action) ==
    LET idx == IndexOf(all_actions, action) - 1
    IN CASE strategy = "g1" -> (IF idx = 0 THEN 3 ELSE idx)
         [] OTHER -> (IF observation = 0 THEN 3 - idx ELSE idx + 1)

\* One value-map: legal action -> estimated value.
QMap(strategy, observation) ==
    [a \in Range(legal_actions(observation)) |-> QValue(strategy, observation, a)]

\* NiceStrategy.get_qs_for_observations: one value-map per observation, in order.
get_qs_for_observations(strategy, observations) ==
    [k \in 1..Len(observations) |-> QMap(strategy, observations[k])]

\* What a call yields when it raises instead of returning an action.
Failure == "<error>"

\* max(q_map, key=q_map.get) over the actions in enumeration order; max of
\* an empty mapping raises.
ArgMax(q_map) ==
    LET keys == SelectSeq(all_actions, LAMBDA a : a \in DOMAIN q_map)
    IN IF keys = <<>> THEN Failure
       ELSE keys[CHOOSE k \in 1..Len(keys) :
                    /\ \A j \in 1..Len(keys) : q_map[keys[j]] <= q_map[keys[k]]
                    /\ \A j \in 1..(k - 1) : q_map[keys[j]] < q_map[keys[k]]]

\* `extra` is <<>> when absent (extra=None) and <<q_map>> when given.
decide_action_for_observation(strategy, observation, extra) ==
    IF extra # <<>> THEN ArgMax(extra[1])
    ELSE IF strategy = "fk" THEN all_actions[1]
         ELSE ArgMax(QMap(strategy, observation))

(***************************************************************************)
(* PlayerInfo and State values.                                            *)
(***************************************************************************)
PlayerIds == 1..MaxPlayers

PlayerInfo == [id : PlayerIds, observation : Observations, strategy : Strategies]

IdsOf(player_infos) == {player_infos[k].id : k \in 1..Len(player_infos)}

\* player_infos is a mapping: ids are unique; its iteration order is kept.
\* Initial mappings name their players 1, 2, ... in iteration order (the
\* code never compares ids, so any other naming behaves alike).
PlayerInfoMappings ==
    {pis \in UNION {[1..len -> PlayerInfo] : len \in 0..MaxPlayers} :
        \A k \in 1..Len(pis) : pis[k].id = k}

AllTerminal(player_infos) ==
    \A k \in 1..Len(player_infos) : is_end_of(player_infos[k].observation)

MakeState(player_infos) ==
    [is_end |-> AllTerminal(player_infos), player_infos |-> player_infos]

NoState == MakeState(<<>>)

\* What state_factory() / make_initial() may return.
InitialStates == {MakeState(pis) : pis \in PlayerInfoMappings}

(***************************************************************************)
(* Naive dispatch: State.get_next_state.                                   *)
(***************************************************************************)
\* NonTerminal without its test: every player is asked.
NonTerminal_Unfiltered(player_infos) == player_infos

\* The players the dict comprehensions keep: `if not player_info.observation.is_end`.
NonTerminal(player_infos) ==
    SelectSeq(player_infos, LAMBDA p : ~is_end_of(p.observation))

\* The decide_action_for_observation calls of the comprehension, in order.
State_decide_calls(player_infos) ==
    LET asked == NonTerminal(player_infos)
    IN [k \in 1..Len(asked) |->
          [id |-> asked[k].id, strategy |-> asked[k].strategy,
           observation |-> asked[k].observation, extra |-> <<>>]]

\* The dict a comprehension builds from its decide calls: id -> returned action.
ActionsOfCalls(decide_calls) ==
    [id \in {decide_calls[k].id : k \in 1..Len(decide_calls)} |->
        LET c == decide_calls[CHOOSE k \in 1..Len(decide_calls) :
                                  /\ decide_calls[k].id = id
                                  /\ \A j \in (k + 1)..Len(decide_calls) :
                                        decide_calls[j].id # id]
        IN decide_action_for_observation(c.strategy, c.observation, c.extra)]

State_dispatch(st) ==
    LET decide_calls == State_decide_calls(st.player_infos)
    IN [qs_calls |-> <<>>,
        decide_calls |-> decide_calls,
        player_id_to_action |-> ActionsOfCalls(decide_calls)]

(***************************************************************************)
(* Batched dispatch: NiceState.get_next_state.                             *)
(***************************************************************************)
\* strategy_to_ids_and_player_infos without the grouping: one group per player.
strategy_to_ids_and_player_infos_PerPlayer(player_infos) ==
    [g \in 1..Len(player_infos) |->
        [strategy |-> player_infos[g].strategy,
         ids_and_player_infos |-> <<player_infos[g]>>]]

\* more_itertools.map_reduce keyed by strategy, reducefunc=tuple: the groups
\* in order of first appearance, each with its members in iteration order.
strategy_to_ids_and_player_infos(player_infos) ==
    LET keys == FirstAppearances([k \in 1..Len(player_infos) |->
                                     player_infos[k].strategy])
    IN [g \in 1..Len(keys) |->
          [strategy |-> keys[g],
           ids_and_player_infos |->
               SelectSeq(player_infos, LAMBDA p : p.strategy = keys[g])]]

\* The get_qs_for_observations calls of the loop, one per group, with the
\* ids the result is zipped with.
NiceState_qs_calls(player_infos) ==
    LET groups == strategy_to_ids_and_player_infos(player_infos)
    IN [g \in 1..Len(groups) |->
          LET members == groups[g].ids_and_player_infos
              ids == [k \in 1..Len(members) |-> members[k].id]
              observations == [k \in 1..Len(members) |-> members[k].observation]
          IN [strategy |-> groups[g].strategy,
              ids |-> ids,
              observations |-> observations,
              q_maps |-> get_qs_for_observations(groups[g].strategy, observations)]]

\* player_id_to_q_map with each batch result zipped back to front.
player_id_to_q_map_Reversed(qs_calls) ==
    [id \in UNION {Range(qs_calls[g].ids) : g \in 1..Len(qs_calls)} |->
        LET g == CHOOSE g \in 1..Len(qs_calls) : id \in Range(qs_calls[g].ids)
            k == IndexOf(qs_calls[g].ids, id)
        IN qs_calls[g].q_maps[Len(qs_calls[g].q_maps) + 1 - k]]

\* player_id_to_q_map after all the update(zip(ids, q_maps)) calls; a later
\* pair for the same id replaces an earlier one.
player_id_to_q_map(qs_calls) ==
    LET Zipped(c) == 1..(IF Len(c.ids) < Len(c.q_maps) THEN Len(c.ids) ELSE Len(c.q_maps))
        Sets(id) == {<<g, k>> \in (1..Len(qs_calls)) \X (1..MaxPlayers) :
                        k \in Zipped(qs_calls[g]) /\ qs_calls[g].ids[k] = id}
        Last(id) == CHOOSE gk \in Sets(id) :
                        \A other \in Sets(id) :
                            \/ other[1] < gk[1]
                            \/ (other[1] = gk[1] /\ other[2] <= gk[2])
    IN [id \in {id \in PlayerIds : Sets(id) # {}} |->
           qs_calls[Last(id)[1]].q_maps[Last(id)[2]]]

\* NiceState_decide_calls handing every player the first asked player's value-map.
NiceState_decide_calls_FirstMap(player_infos, q_map_of) ==
    LET asked == NonTerminal(player_infos)
    IN [k \in 1..Len(asked) |->
          [id |-> asked[k].id, strategy |-> asked[k].strategy,
           observation |-> asked[k].observation,
           extra |-> <<q_map_of[asked[1].id]>>]]

\* The decide_action_for_observation calls of the second comprehension, each
\* with extra=player_id_to_q_map[id].
NiceState_decide_calls(player_infos, q_map_of) ==
    LET asked == NonTerminal(player_infos)
    IN [k \in 1..Len(asked) |->
          [id |-> asked[k].id, strategy |-> asked[k].strategy,
           observation |-> asked[k].observation,
           extra |-> <<q_map_of[asked[k].id]>>]]

NiceState_dispatch(st) ==
    LET qs_calls == NiceState_qs_calls(st.player_infos)
        decide_calls == NiceState_decide_calls(st.player_infos,
                                               player_id_to_q_map(qs_calls))
    IN [qs_calls |-> qs_calls,
        decide_calls |-> decide_calls,
        player_id_to_action |-> ActionsOfCalls(decide_calls)]

(***************************************************************************)
(* The rule-specific transition: a player that contributed an action moves *)
(* to its next observation, a player that contributed none (its            *)
(* observation was terminal) leaves the game.                              *)
(***************************************************************************)
get_next_state_from_actions(st, player_id_to_action) ==
    LET moved == [k \in 1..Len(st.player_infos) |->
                    LET p == st.player_infos[k]
                    IN IF p.id \in DOMAIN player_id_to_action
                       THEN [p EXCEPT !.observation =
                               get_next_observation(p.observation,
                                                    player_id_to_action[p.id])]
                       ELSE p]
    IN MakeState(SelectSeq(moved, LAMBDA p : p.id \in DOMAIN player_id_to_action))

Classes == {"State", "NiceState"}

\* The calls of a turn that may raise: the value query of group `at`
\* (batched dispatch only), the decide call number `at`, and
\* get_next_state_from_actions.
FailurePoints(class, st) ==
    {[phase |-> "qs", at |-> g] :
        g \in 1..(IF class = "NiceState"
                  THEN Len(strategy_to_ids_and_player_infos(st.player_infos))
                  ELSE 0)}
    \cup {[phase |-> "decide", at |-> k] :
             k \in 1..Len(NonTerminal(st.player_infos))}
    \cup {[phase |-> "rule", at |-> 0]}

NoFailure == [phase |-> "none", at |-> 0]

\* What a turn that runs to its end adds to the record of its dispatch.
Resolved == [failed |-> NoFailure, rule_called |-> TRUE]

Dispatch(class, st) ==
    IF class = "NiceState" THEN NiceState_dispatch(st) ELSE State_dispatch(st)

\* get_next_state of the given class, applied to st.
get_next_state(class, st) ==
    get_next_state_from_actions(st, Dispatch(class, st).player_id_to_action)

\* What get_next_state of the given class does on st when the call at
\* `point` raises: the calls made up to that one (a value query that raised
\* has no q_maps), the entries the comprehension had collected, and whether
\* get_next_state_from_actions was reached.
FailedTurn(class, st, point) ==
    LET d == Dispatch(class, st)
        qs_calls ==
            IF point.phase = "qs"
            THEN [g \in 1..point.at |->
                     IF g = point.at
                     THEN [d.qs_calls[g] EXCEPT !.q_maps = <<>>]
                     ELSE d.qs_calls[g]]
            ELSE d.qs_calls
        decide_calls ==
            CASE point.phase = "qs" -> <<>>
              [] point.phase = "decide" -> SubSeq(d.decide_calls, 1, point.at)
              [] OTHER -> d.decide_calls
        collected ==
            CASE point.phase = "qs" -> <<>>
              [] point.phase = "decide" -> SubSeq(d.decide_calls, 1, point.at - 1)
              [] OTHER -> d.decide_calls
    IN [qs_calls |-> qs_calls,
        decide_calls |-> decide_calls,
        player_id_to_action |-> ActionsOfCalls(collected),
        failed |-> point,
        rule_called |-> point.phase = "rule"]

(***************************************************************************)
(* The Action type: _ActionType (the metaclass) and Action's default       *)
(* vector encoding.  A call returns [raised, value]: raised is "none" or   *)
(* the name of the exception, value is what was returned.  The class       *)
(* object itself, as a returned value, is ClassObject.                     *)
(***************************************************************************)
Names == <<"A", "B", "C", "D", "E">>

\* The enumerations an action type may have.
ActionTypes == {SubSeq(Names, 1, k) : k \in 1..MaxActions}

\* The vectors handed to from_neurons.
Neurons == UNION {[1..len -> {0, 1}] : len \in 0..MaxActions}

ClassObject == "<class>"

Returned(value) == [raised |-> "none", value |-> value]
Raised(error) == [raised |-> error, value |-> ""]

NoCall == [op |-> "none", arg |-> "", cached |-> FALSE, result |-> Returned("")]

\* _ActionType.__len__
len(enumeration) == Len(enumeration)

\* _ActionType.__getitem__(cls, i), i being the index of the code (from 0).
getitem(enumeration, idx) ==
    IF idx >= len(enumeration) THEN Raised("IndexError")
    ELSE IF \E j \in 0..(Len(enumeration) - 1) : j = idx
         THEN Returned(ClassObject)
         ELSE Raised("RuntimeError")

\* to_neurons with the comparison one place off.
to_neurons_Shifted(enumeration, self) ==
    [k \in 1..Len(enumeration) |->
        IF self = enumeration[(k % Len(enumeration)) + 1] THEN 1 ELSE 0]

\* The vector Action.to_neurons computes when nothing is cached:
\* [int(self == action) for action in type(self)]
to_neurons(enumeration, self) ==
    [k \in 1..Len(enumeration) |-> IF self = enumeration[k] THEN 1 ELSE 0]

\* Action.from_neurons: cls[tuple(neurons).index(1)]
from_neurons(enumeration, neurons) ==
    IF IndexOf(neurons, 1) = 0 THEN Raised("ValueError")
    ELSE getitem(enumeration, IndexOf(neurons, 1) - 1)

\* Action.__lt__ with the comparison not strict.
lt_OrEqual(enumeration, self, other) ==
    IndexOf(enumeration, self) <= IndexOf(enumeration, other)

\* Action.__lt__: self.all_actions.index(self) < self.all_actions.index(other)
lt(enumeration, self, other) ==
    IndexOf(enumeration, self) < IndexOf(enumeration, other)

\* The characters str(action) is made of: a letter, a digit, the dot, the
\* four other characters the tail pattern allows, and a character that no
\* pattern allows.
Characters == {"a", "0", ".", "_", "-", "/", ">", " "}

\* The string forms an action may have.
Strings == UNION {[1..length -> Characters] : length \in 0..MaxStrLen}

\* _action_regex_head.fullmatch(c): one character of [A-Za-z0-9.]
_action_regex_head(c) == c \in {"a", "0", "."}

\* _action_regex_tail.fullmatch(string): characters of [A-Za-z0-9_.\-/>] only
_action_regex_tail(string) ==
    \A k \in 1..Len(string) : string[k] \in {"a", "0", ".", "_", "-", "/", ">"}

\* _action_regex.fullmatch(string): the head pattern, then the tail pattern
_action_regex(string) ==
    /\ string # <<>>
    /\ _action_regex_head(string[1])
    /\ _action_regex_tail(SubSeq(string, 2, Len(string)))

\* slugify that never puts the prefix.
slugify_NoPrefix(raw) ==
    IF raw = <<>> THEN Raised("IndexError")
    ELSE LET result == [k \in 1..Len(raw) |->
                           IF _action_regex_tail(<<raw[k]>>) THEN raw[k] ELSE "-"]
         IN IF _action_regex(result) THEN Returned(result)
            ELSE Raised("AssertionError")

\* slugify that puts the prefix whatever the first character is.
slugify_AlwaysPrefix(raw) ==
    IF raw = <<>> THEN Raised("IndexError")
    ELSE LET result == <<"0">> \o [k \in 1..Len(raw) |->
                           IF _action_regex_tail(<<raw[k]>>) THEN raw[k] ELSE "-"]
         IN IF _action_regex(result) THEN Returned(result)
            ELSE Raised("AssertionError")

\* Action.slugify, raw being str(self); raw[0] of an empty string raises.
slugify(raw) ==
    IF raw = <<>> THEN Raised("IndexError")
    ELSE LET first_letter == raw[1]
             prefix == IF _action_regex_head(first_letter) THEN <<>> ELSE <<"0">>
             characters == [k \in 1..Len(raw) |->
                              IF _action_regex_tail(<<raw[k]>>) THEN raw[k] ELSE "-"]
             result == prefix \o characters
         IN IF _action_regex(result) THEN Returned(result)
            ELSE Raised("AssertionError")

\* The two iterate_states generators of the model.
Generators == {1, 2}

\* train has not been called.
NoTrain ==
    /\ n = 0
    /\ max_game_length = 0
    /\ pc = "for"
    /\ i = 0
    /\ state = NoState
    /\ start = NoState
    /\ yielded = <<>>
    /\ rollout_yielded = 0
    /\ total_yielded = 0
    /\ calls = 0
    /\ ended_by = "none"
    /\ printed = [rounds |-> 0, dones |-> 0]
    /\ factory_calls = 0
    /\ turn = <<>>

\* The game's action type, nothing cached, nothing called.
NoAction ==
    /\ all_actions = GameActions
    /\ _to_neurons = [a \in Range(GameActions) |-> <<>>]
    /\ _n_neurons = <<>>
    /\ ret = NoCall

\* No action whose slug is asked for.
NoSlug == str_self = <<>>

\* No iterate_states generator has been created by a caller of its own.
NoIterate ==
    /\ starting_state = NoState
    /\ generators = [g \in Generators |->
                        [pc |-> "returned", state |-> NoState, out |-> <<>>]]

InitAction ==
    /\ n = 0
    /\ max_game_length = 0
    /\ cls = "State"
    /\ pc = "for"
    /\ i = 0
    /\ state = NoState
    /\ start = NoState
    /\ yielded = <<>>
    /\ rollout_yielded = 0
    /\ total_yielded = 0
    /\ calls = 0
    /\ ended_by = "none"
    /\ printed = [rounds |-> 0, dones |-> 0]
    /\ factory_calls = 0
    /\ turn = <<>>
    /\ all_actions \in ActionTypes
    /\ _to_neurons = [a \in Range(all_actions) |-> <<>>]
    /\ _n_neurons = <<>>
    /\ ret = NoCall
    /\ NoSlug
    /\ NoIterate

\* action.to_neurons(): the cached vector, computed and stored at the first call.
ToNeurons ==
    \E self \in Range(all_actions) :
        LET hit == _to_neurons[self] # <<>>
            value == IF hit THEN _to_neurons[self][1]
                     ELSE to_neurons(all_actions, self)
        IN /\ _to_neurons' = [_to_neurons EXCEPT ![self] = <<value>>]
           /\ ret' = [op |-> "to_neurons", arg |-> self, cached |-> hit,
                      result |-> Returned(value)]
           /\ UNCHANGED <<all_actions, _n_neurons>>
           /\ UNCHANGED <<trainVars, slugVars, iterVars>>

\* cls.from_neurons(neurons)
FromNeurons ==
    \E neurons \in Neurons :
        /\ ret' = [op |-> "from_neurons", arg |-> neurons, cached |-> FALSE,
                   result |-> from_neurons(all_actions, neurons)]
        /\ UNCHANGED <<all_actions, _to_neurons, _n_neurons>>
        /\ UNCHANGED <<trainVars, slugVars, iterVars>>

\* cls.n_neurons: the cached count, computed and stored at the first access.
NNeurons ==
    LET hit == _n_neurons # <<>>
        value == IF hit THEN _n_neurons[1] ELSE len(all_actions)
    IN /\ _n_neurons' = <<value>>
       /\ ret' = [op |-> "n_neurons", arg |-> "", cached |-> hit,
                  result |-> Returned(value)]
       /\ UNCHANGED <<all_actions, _to_neurons>>
       /\ UNCHANGED <<trainVars, slugVars, iterVars>>

\* self < other, for two actions of the action type.
LessThan ==
    \E self \in Range(all_actions), other \in Range(all_actions) :
        /\ ret' = [op |-> "lt", arg |-> <<self, other>>, cached |-> FALSE,
                   result |-> Returned(lt(all_actions, self, other))]
        /\ UNCHANGED <<all_actions, _to_neurons, _n_neurons>>
        /\ UNCHANGED <<trainVars, slugVars, iterVars>>

NextAction ==
    \/ ToNeurons
    \/ FromNeurons
    \/ NNeurons
    \/ LessThan

SpecAction == InitAction /\ [][NextAction]_vars

(***************************************************************************)
(* Action.slugify, applied to an action whose string form is raw.          *)
(***************************************************************************)
InitSlug ==
    /\ cls = "State"
    /\ NoTrain
    /\ NoAction
    /\ str_self \in Strings
    /\ NoIterate

\* action.slugify()
Slugify ==
    /\ ret' = [op |-> "slugify", arg |-> str_self, cached |-> FALSE,
               result |-> slugify(str_self)]
    /\ UNCHANGED <<all_actions, _to_neurons, _n_neurons>>
    /\ UNCHANGED <<trainVars, slugVars, iterVars>>

NextSlug == Slugify

SpecSlug == InitSlug /\ [][NextSlug]_vars

(***************************************************************************)
(* State.train and State.iterate_states as generators.  pc is the place    *)
(* where the pair of generators stands:                                    *)
(*   "for"      train, at the head of `for i in range(n)`                  *)
(*   "factory"  train, after the print, before `state_factory()`           *)
(*   "islice"   the slice [:max_game_length] is asked for its next item    *)
(*   "while"    iterate_states, at the test `while state.player_infos`     *)
(*   "yielded"  both generators suspended at their yield; the consumer     *)
(*              holds the yielded state                                    *)
(*   "advance"  iterate_states resumed after its yield, before             *)
(*              `state = state.get_next_state()`                           *)
(*   "done"     train has returned                                         *)
(*   "raised"   an exception left get_next_state and both generators       *)
(*   "closed"   the consumer asked again after the exception               *)
(***************************************************************************)
Init ==
    /\ n \in 0..MaxN
    /\ max_game_length \in 0..MaxGameLength
    /\ cls \in Classes
    /\ pc = "for"
    /\ i = 0
    /\ state = NoState
    /\ start = NoState
    /\ yielded = <<>>
    /\ rollout_yielded = 0
    /\ total_yielded = 0
    /\ calls = 0
    /\ ended_by = "none"
    /\ printed = [rounds |-> 0, dones |-> 0]
    /\ factory_calls = 0
    /\ turn = <<>>
    /\ all_actions = GameActions
    /\ _to_neurons = [a \in Range(GameActions) |-> <<>>]
    /\ _n_neurons = <<>>
    /\ ret = NoCall
    /\ NoSlug
    /\ NoIterate

\* print(f'Training round {i}...'): rollout i begins.  The iterate_states
\* generator of the rollout before is gone; the record of that rollout
\* (start, yielded, rollout_yielded, calls, ended_by, turn) is cleared.
TrainingRound ==
    /\ pc = "for"
    /\ i < n
    /\ printed' = [printed EXCEPT !.rounds = @ + 1]
    /\ start' = NoState
    /\ yielded' = <<>>
    /\ rollout_yielded' = 0
    /\ calls' = 0
    /\ ended_by' = "none"
    /\ turn' = <<>>
    /\ pc' = "factory"
    /\ UNCHANGED <<actionVars, slugVars, iterVars>>
    /\ UNCHANGED <<n, max_game_length, cls, i, state, total_yielded,
                   factory_calls>>

\* DoneTraining with the loop one round short: range(n - 1).
DoneTraining_Early ==
    /\ pc = "for"
    /\ i >= n - 1
    /\ printed' = [printed EXCEPT !.dones = @ + 1]
    /\ pc' = "done"
    /\ UNCHANGED <<actionVars, slugVars, iterVars>>
    /\ UNCHANGED <<n, max_game_length, cls, i, state, start, yielded,
                   rollout_yielded, total_yielded, calls, ended_by,
                   factory_calls, turn>>

\* print('Done training.') once range(n) is exhausted.
DoneTraining ==
    /\ pc = "for"
    /\ i >= n
    /\ printed' = [printed EXCEPT !.dones = @ + 1]
    /\ pc' = "done"
    /\ UNCHANGED <<actionVars, slugVars, iterVars>>
    /\ UNCHANGED <<n, max_game_length, cls, i, state, start, yielded,
                   rollout_yielded, total_yielded, calls, ended_by,
                   factory_calls, turn>>

\* StateFactory with the factory called for the first rollout only: later
\* rollouts go on with what the rollout before has left.
StateFactory_FirstOnly ==
    /\ pc = "factory"
    /\ \E s \in InitialStates :
          /\ state' = IF i = 0 THEN s ELSE state
          /\ start' = IF i = 0 THEN s ELSE state
    /\ factory_calls' = IF i = 0 THEN 1 ELSE factory_calls
    /\ pc' = "islice"
    /\ UNCHANGED <<actionVars, slugVars, iterVars>>
    /\ UNCHANGED <<n, max_game_length, cls, i, yielded, rollout_yielded,
                   total_yielded, calls, ended_by, printed, turn>>

\* state = state_factory(); state.iterate_states() is created, not yet started.
StateFactory ==
    /\ pc = "factory"
    /\ \E s \in InitialStates :
          /\ state' = s
          /\ start' = s
    /\ factory_calls' = factory_calls + 1
    /\ pc' = "islice"
    /\ UNCHANGED <<actionVars, slugVars, iterVars>>
    /\ UNCHANGED <<n, max_game_length, cls, i, yielded, rollout_yielded,
                   total_yielded, calls, ended_by, printed, turn>>

\* IsliceStop after a look-ahead: the successor of the last yielded state is
\* computed before the slice stops.
IsliceStop_LookAhead ==
    /\ pc = "islice"
    /\ rollout_yielded >= max_game_length
    /\ ended_by' = "cap"
    /\ calls' = calls + 1
    /\ state' = NoState
    /\ i' = i + 1
    /\ pc' = "for"
    /\ UNCHANGED <<actionVars, slugVars, iterVars>>
    /\ UNCHANGED <<n, max_game_length, cls, start, yielded,
                   rollout_yielded, total_yielded, printed,
                   factory_calls, turn>>

\* The slice has handed out max_game_length items: it stops without asking
\* iterate_states for another one; the suspended generator is dropped with
\* its local `state`, and the for loop goes on.
IsliceStop ==
    /\ pc = "islice"
    /\ rollout_yielded >= max_game_length
    /\ ended_by' = "cap"
    /\ state' = NoState
    /\ i' = i + 1
    /\ pc' = "for"
    /\ UNCHANGED <<actionVars, slugVars, iterVars>>
    /\ UNCHANGED <<n, max_game_length, cls, start, yielded,
                   rollout_yielded, total_yielded, calls, printed,
                   factory_calls, turn>>

\* IsliceNext with the cap off by one: the slice [:max_game_length + 1].
IsliceNext_OneMore ==
    /\ pc = "islice"
    /\ rollout_yielded <= max_game_length
    /\ pc' = IF rollout_yielded = 0 THEN "while" ELSE "advance"
    /\ UNCHANGED <<actionVars, slugVars, iterVars>>
    /\ UNCHANGED <<n, max_game_length, cls, i, state, start, yielded,
                   rollout_yielded, total_yielded, calls, ended_by, printed,
                   factory_calls, turn>>

\* The slice asks iterate_states for its next item: the generator starts at
\* `state = self` and the while test, or resumes after its yield.
IsliceNext ==
    /\ pc = "islice"
    /\ rollout_yielded < max_game_length
    /\ pc' = IF rollout_yielded = 0 THEN "while" ELSE "advance"
    /\ UNCHANGED <<actionVars, slugVars, iterVars>>
    /\ UNCHANGED <<n, max_game_length, cls, i, state, start, yielded,
                   rollout_yielded, total_yielded, calls, ended_by, printed,
                   factory_calls, turn>>

\* state = state.get_next_state()
GetNextState ==
    /\ pc = "advance"
    /\ turn' = <<[on |-> state, class |-> cls] @@ Dispatch(cls, state)
                 @@ Resolved>>
    /\ state' = get_next_state(cls, state)
    /\ calls' = calls + 1
    /\ pc' = "while"
    /\ UNCHANGED <<actionVars, slugVars, iterVars>>
    /\ UNCHANGED <<n, max_game_length, cls, i, start, yielded,
                   rollout_yielded, total_yielded, ended_by, printed,
                   factory_calls>>

\* GetNextStateRaises with the exception swallowed: the turn goes on as if
\* no call had raised.
GetNextStateRaises_Swallowed ==
    /\ pc = "advance"
    /\ \E point \in FailurePoints(cls, state) :
          turn' = <<[on |-> state, class |-> cls]
                    @@ [FailedTurn(cls, state, point) EXCEPT !.rule_called = TRUE]>>
    /\ state' = get_next_state(cls, state)
    /\ calls' = calls + 1
    /\ pc' = "while"
    /\ UNCHANGED <<actionVars, slugVars, iterVars>>
    /\ UNCHANGED <<n, max_game_length, cls, i, start, yielded,
                   rollout_yielded, total_yielded, ended_by, printed,
                   factory_calls>>

\* state.get_next_state() raises: a value query, a decide call or
\* get_next_state_from_actions raised.  Nothing in get_next_state,
\* iterate_states, the slice or train catches it: `state` is not assigned,
\* both generators end with the exception, which reaches the consumer.
GetNextStateRaises ==
    /\ pc = "advance"
    /\ \E point \in FailurePoints(cls, state) :
          turn' = <<[on |-> state, class |-> cls]
                    @@ FailedTurn(cls, state, point)>>
    /\ calls' = calls + 1
    /\ pc' = "raised"
    /\ UNCHANGED <<actionVars, slugVars, iterVars>>
    /\ UNCHANGED <<n, max_game_length, cls, i, state, start, yielded,
                   rollout_yielded, total_yielded, ended_by, printed,
                   factory_calls>>

\* NextAfterError with train going on to its next rollout.
NextAfterError_NextRollout ==
    /\ pc = "raised"
    /\ i' = i + 1
    /\ pc' = "for"
    /\ UNCHANGED <<actionVars, slugVars, iterVars>>
    /\ UNCHANGED <<n, max_game_length, cls, state, start, yielded,
                   rollout_yielded, total_yielded, calls, ended_by, printed,
                   factory_calls, turn>>

\* The consumer asks train for a next state after the exception: the
\* generator has ended, nothing of train runs again.
NextAfterError ==
    /\ pc = "raised"
    /\ pc' = "closed"
    /\ UNCHANGED <<actionVars, slugVars, iterVars>>
    /\ UNCHANGED <<n, max_game_length, cls, i, state, start, yielded,
                   rollout_yielded, total_yielded, calls, ended_by, printed,
                   factory_calls, turn>>

\* Yield without the while test: the state is yielded whatever it holds.
Yield_Untested ==
    /\ pc = "while"
    /\ yielded' = <<state>>
    /\ rollout_yielded' = rollout_yielded + 1
    /\ total_yielded' = total_yielded + 1
    /\ pc' = "yielded"
    /\ UNCHANGED <<actionVars, slugVars, iterVars>>
    /\ UNCHANGED <<n, max_game_length, cls, i, state, start, calls,
                   ended_by, printed, factory_calls, turn>>

\* `while state.player_infos:` is true: yield state (through the slice and
\* train's yield from, to the consumer).
Yield ==
    /\ pc = "while"
    /\ state.player_infos # <<>>
    /\ yielded' = <<state>>
    /\ rollout_yielded' = rollout_yielded + 1
    /\ total_yielded' = total_yielded + 1
    /\ pc' = "yielded"
    /\ UNCHANGED <<actionVars, slugVars, iterVars>>
    /\ UNCHANGED <<n, max_game_length, cls, i, state, start, calls,
                   ended_by, printed, factory_calls, turn>>

\* `while state.player_infos:` is false: iterate_states returns (its local
\* `state` is gone), the slice and the yield from end, the for loop goes on.
Exhausted ==
    /\ pc = "while"
    /\ state.player_infos = <<>>
    /\ ended_by' = "exhausted"
    /\ state' = NoState
    /\ i' = i + 1
    /\ pc' = "for"
    /\ UNCHANGED <<actionVars, slugVars, iterVars>>
    /\ UNCHANGED <<n, max_game_length, cls, start, yielded,
                   rollout_yielded, total_yielded, calls, printed,
                   factory_calls, turn>>

\* The consumer asks train for the next state.
Consume ==
    /\ pc = "yielded"
    /\ pc' = "islice"
    /\ UNCHANGED <<actionVars, slugVars, iterVars>>
    /\ UNCHANGED <<n, max_game_length, cls, i, state, start, yielded,
                   rollout_yielded, total_yielded, calls, ended_by, printed,
                   factory_calls, turn>>

Next ==
    \/ TrainingRound
    \/ DoneTraining
    \/ StateFactory
    \/ IsliceStop
    \/ IsliceNext
    \/ GetNextState
    \/ Yield
    \/ Exhausted
    \/ Consume

Spec == Init /\ [][Next]_vars

\* train with strategies and rules whose calls may raise.
NextFail ==
    \/ TrainingRound
    \/ DoneTraining
    \/ StateFactory
    \/ IsliceStop
    \/ IsliceNext
    \/ GetNextState
    \/ GetNextStateRaises
    \/ NextAfterError
    \/ Yield
    \/ Exhausted
    \/ Consume

SpecFail == Init /\ [][NextFail]_vars

(***************************************************************************)
(* Two iterate_states generators created on one State object and consumed  *)
(* in any interleaving.  A generator is at                                 *)
(*   "created"   before its first next(): its body has not started         *)
(*   "while"     at the test `while state.player_infos`                    *)
(*   "yielded"   suspended at its yield                                    *)
(*   "returned"  after the while loop                                      *)
(***************************************************************************)
InitIterate ==
    /\ cls \in Classes
    /\ NoTrain
    /\ NoAction
    /\ NoSlug
    /\ starting_state \in InitialStates
    /\ generators = [g \in Generators |->
                        [pc |-> "created", state |-> NoState, out |-> <<>>]]

\* The first next() on generator g: `state = self`
IterStart(g) ==
    /\ generators[g].pc = "created"
    /\ generators' = [generators EXCEPT ![g].state = starting_state,
                                        ![g].pc = "while"]
    /\ UNCHANGED starting_state
    /\ UNCHANGED <<trainVars, actionVars, slugVars>>

\* `while state.player_infos:` is true: yield state
IterYield(g) ==
    /\ generators[g].pc = "while"
    /\ generators[g].state.player_infos # <<>>
    /\ generators' = [generators EXCEPT ![g].out = Append(@, generators[g].state),
                                        ![g].pc = "yielded"]
    /\ UNCHANGED starting_state
    /\ UNCHANGED <<trainVars, actionVars, slugVars>>

\* `while state.player_infos:` is false: the generator returns.
IterReturn(g) ==
    /\ generators[g].pc = "while"
    /\ generators[g].state.player_infos = <<>>
    /\ generators' = [generators EXCEPT ![g].pc = "returned"]
    /\ UNCHANGED starting_state
    /\ UNCHANGED <<trainVars, actionVars, slugVars>>

\* IterNext with a transition that works in place: the object the generator
\* was created on is overwritten with the successor.
IterNext_InPlace(g) ==
    /\ generators[g].pc = "yielded"
    /\ Len(generators[g].out) < MaxItems
    /\ generators' = [generators EXCEPT
                         ![g].state = get_next_state(cls, generators[g].state),
                         ![g].pc = "while"]
    /\ starting_state' = get_next_state(cls, generators[g].state)
    /\ UNCHANGED <<trainVars, actionVars, slugVars>>

\* A later next() on generator g: `state = state.get_next_state()` binds the
\* local name to the new State; the object it named before is not touched.
IterNext(g) ==
    /\ generators[g].pc = "yielded"
    /\ Len(generators[g].out) < MaxItems
    /\ generators' = [generators EXCEPT
                         ![g].state = get_next_state(cls, generators[g].state),
                         ![g].pc = "while"]
    /\ UNCHANGED starting_state
    /\ UNCHANGED <<trainVars, actionVars, slugVars>>

NextIterate ==
    \E g \in Generators :
        \/ IterStart(g)
        \/ IterYield(g)
        \/ IterReturn(g)
        \/ IterNext(g)

SpecIterate == InitIterate /\ [][NextIterate]_vars

(***************************************************************************)
(* Properties of the turn dispatch.                                        *)
(***************************************************************************)
\* The strategy decides the same with and without its own value-map for
\* the observation.
SameWithAndWithout(strategy, observation) ==
    decide_action_for_observation(strategy, observation, <<>>) =
    decide_action_for_observation(strategy, observation,
        <<get_qs_for_observations(strategy, <<observation>>)[1]>>)

BatchingIndifferent(st) ==
    \A k \in 1..Len(st.player_infos) :
        ~is_end_of(st.player_infos[k].observation) =>
            SameWithAndWithout(st.player_infos[k].strategy,
                               st.player_infos[k].observation)

\* get_next_state has just returned: turn holds what the call did, state is
\* its result.
TurnComputed == pc = "while" /\ turn # <<>>

\* C1: on every state a turn was computed for, if each strategy decides the
\* same with and without its precomputed value-map, the naive and the batched
\* dispatch hand the same player-id-to-action mapping to
\* get_next_state_from_actions and give the same successor, which is the
\* successor the turn produced.
C1_DispatchesAgree ==
    TurnComputed =>
        LET on == turn[1].on
        IN BatchingIndifferent(on) =>
              /\ State_dispatch(on).player_id_to_action =
                 NiceState_dispatch(on).player_id_to_action
              /\ turn[1].player_id_to_action =
                 State_dispatch(on).player_id_to_action
              /\ get_next_state("State", on) = get_next_state("NiceState", on)
              /\ state = get_next_state("State", on)

\* A batched turn on two value-driven players of one strategy that see
\* different observations, with a terminal-free mapping.
C1_Witness ==
    /\ TurnComputed
    /\ turn[1].class = "NiceState"
    /\ BatchingIndifferent(turn[1].on)
    /\ Len(turn[1].on.player_infos) = 2
    /\ turn[1].on.player_infos[1].strategy = turn[1].on.player_infos[2].strategy
    /\ turn[1].on.player_infos[1].observation = 1
    /\ turn[1].on.player_infos[2].observation = 0

\* The players of strategy s, in player_infos iteration order.
PlayersOf(player_infos, s) == SelectSeq(player_infos, LAMBDA p : p.strategy = s)

\* C2: in a batched turn, get_qs_for_observations is called exactly once for
\* each strategy that controls a player and never for another one, and the
\* call receives the observations of all the players of that strategy in
\* player_infos iteration order.
C2_OneQueryPerStrategy ==
    (TurnComputed /\ turn[1].class = "NiceState") =>
        LET t == turn[1]
            CallsOf(s) == {g \in 1..Len(t.qs_calls) : t.qs_calls[g].strategy = s}
        IN \A s \in Strategies :
              LET members == PlayersOf(t.on.player_infos, s)
              IN /\ Cardinality(CallsOf(s)) = IF members = <<>> THEN 0 ELSE 1
                 /\ \A g \in CallsOf(s) :
                       t.qs_calls[g].observations =
                          [k \in 1..Len(members) |-> members[k].observation]

\* A batched turn on two players that share their strategy: one call, with
\* both observations.
C2_Witness ==
    /\ TurnComputed
    /\ turn[1].class = "NiceState"
    /\ Len(turn[1].on.player_infos) = 2
    /\ turn[1].on.player_infos[1].strategy = turn[1].on.player_infos[2].strategy
    /\ Len(turn[1].qs_calls) = 1
    /\ Len(turn[1].qs_calls[1].observations) = 2

\* The place of player k of player_infos among the players of its strategy.
PlaceInBatch(player_infos, k) ==
    Cardinality({j \in 1..k : player_infos[j].strategy = player_infos[k].strategy})

\* C3: in a batched turn, every non-terminal player is asked once, with the
\* value-map that the call to its own strategy returned at the place its own
\* observation had in that call's batch, which is its own strategy's value-map
\* of its own observation.
C3_OwnValueMap ==
    (TurnComputed /\ turn[1].class = "NiceState") =>
        LET t == turn[1]
            pis == t.on.player_infos
        IN \A k \in 1..Len(pis) :
              ~is_end_of(pis[k].observation) =>
                 \E c \in 1..Len(t.decide_calls), g \in 1..Len(t.qs_calls) :
                    LET place == PlaceInBatch(pis, k)
                    IN /\ t.decide_calls[c].id = pis[k].id
                       /\ t.decide_calls[c].strategy = pis[k].strategy
                       /\ t.decide_calls[c].observation = pis[k].observation
                       /\ t.qs_calls[g].strategy = pis[k].strategy
                       /\ t.qs_calls[g].observations[place] = pis[k].observation
                       /\ t.decide_calls[c].extra = <<t.qs_calls[g].q_maps[place]>>
                       /\ t.decide_calls[c].extra =
                             <<QMap(pis[k].strategy, pis[k].observation)>>

\* A batched turn on two players of one strategy with different non-terminal
\* observations: their value-maps differ.
C3_Witness ==
    /\ TurnComputed
    /\ turn[1].class = "NiceState"
    /\ Len(turn[1].on.player_infos) = 2
    /\ turn[1].on.player_infos[1].strategy = turn[1].on.player_infos[2].strategy
    /\ turn[1].on.player_infos[1].observation = 0
    /\ turn[1].on.player_infos[2].observation = 1
    /\ Len(turn[1].decide_calls) = 2
    /\ turn[1].decide_calls[1].extra # turn[1].decide_calls[2].extra

\* C4: in both dispatches the keys of player_id_to_action are exactly the ids
\* of the players whose observation is not terminal, decide is called once
\* for each of them and never for a player with a terminal observation.
C4_KeysAreNonTerminal ==
    TurnComputed =>
        \A class \in Classes :
            LET on == turn[1].on
                d == IF class = turn[1].class THEN turn[1] ELSE Dispatch(class, on)
                alive == {on.player_infos[k].id : k \in
                            {j \in 1..Len(on.player_infos) :
                                on.player_infos[j].observation # Terminal}}
            IN /\ DOMAIN d.player_id_to_action = alive
               /\ \A id \in IdsOf(on.player_infos) :
                     Cardinality({c \in 1..Len(d.decide_calls) :
                                     d.decide_calls[c].id = id})
                        = IF id \in alive THEN 1 ELSE 0

\* A turn on a state with one terminal and one non-terminal player.
C4_Witness ==
    /\ TurnComputed
    /\ Len(turn[1].on.player_infos) = 2
    /\ turn[1].on.player_infos[1].observation = Terminal
    /\ turn[1].on.player_infos[2].observation # Terminal
    /\ DOMAIN turn[1].player_id_to_action = {turn[1].on.player_infos[2].id}

(***************************************************************************)
(* Properties of the rollouts.                                             *)
(***************************************************************************)
\* get_next_state applied k times to s.
RECURSIVE Chain(_, _)
Chain(s, k) == IF k = 0 THEN s ELSE get_next_state(cls, Chain(s, k - 1))

\* C5: the k-th state a rollout yields is get_next_state applied k-1 times to
\* the state iterate_states was called on, and it has players; when
\* iterate_states stops by itself, the next state of that chain is the first
\* one without players (so nothing is yielded from a start without players).
C5_IterateStates ==
    /\ pc = "yielded" =>
          /\ yielded = <<Chain(start, rollout_yielded - 1)>>
          /\ yielded[1].player_infos # <<>>
    /\ (pc = "for" /\ ended_by = "exhausted") =>
          /\ Chain(start, rollout_yielded).player_infos = <<>>
          /\ start.player_infos = <<>> => rollout_yielded = 0
    /\ (pc = "for" /\ ended_by = "cap") => rollout_yielded = max_game_length

\* A rollout that yielded its start and one successor and then stopped at
\* the empty state.
C5_Witness ==
    /\ pc = "for"
    /\ ended_by = "exhausted"
    /\ rollout_yielded = 2
    /\ yielded # <<>>
    /\ yielded[1] # start

\* C6: get_next_state is never called on a state whose is_end is true, nor
\* on a state without players.
C6_NoTransitionAfterEnd ==
    turn # <<>> =>
        /\ ~turn[1].on.is_end
        /\ turn[1].on.player_infos # <<>>

\* C7: a rollout yields at most max_game_length states and train at most
\* n * max_game_length, also in a game that never runs out of players.
C7_LengthCap ==
    /\ rollout_yielded <= max_game_length
    /\ total_yielded <= n * max_game_length
    /\ total_yielded <= i * max_game_length + rollout_yielded

\* Two rollouts of a game that never runs out of players (the player stays
\* at level 0 for ever), both cut by the cap.
C7_Witness ==
    /\ pc = "done"
    /\ Chain(start, max_game_length + 1) = start
    /\ start.player_infos # <<>>
    /\ n = 2
    /\ max_game_length = 2
    /\ ended_by = "cap"
    /\ rollout_yielded = max_game_length
    /\ total_yielded = n * max_game_length

\* C8: the notification of rollout i is printed before the factory is called
\* for rollout i and before a state of rollout i is yielded; when train has
\* ended there were exactly n of them, and the one completion notification
\* is printed when nothing remains to be yielded.
C8_Notifications ==
    /\ printed.dones = (IF pc = "done" THEN 1 ELSE 0)
    /\ pc = "done" => (printed.rounds = n /\ i = n)
    /\ pc \in {"for", "done"} => (printed.rounds = i /\ factory_calls = i)
    /\ pc = "factory" =>
          /\ printed.rounds = i + 1
          /\ factory_calls = i
          /\ rollout_yielded = 0
    /\ pc \in {"islice", "while", "yielded", "advance"} =>
          /\ printed.rounds = i + 1
          /\ factory_calls = i + 1
    /\ total_yielded <= i * max_game_length + rollout_yielded
    /\ i <= n

\* train(n=2) consumed to its end after yielding states in both rollouts.
C8_Witness ==
    /\ pc = "done"
    /\ n = 2
    /\ printed = [rounds |-> 2, dones |-> 1]
    /\ total_yielded >= 2
    /\ rollout_yielded >= 1

(***************************************************************************)
(* Properties of the Action encoding (checked under SpecAction).           *)
(***************************************************************************)
\* C9: from_neurons applied to the vector a.to_neurons() returned gives back
\* the action a.
C9_RoundTrip ==
    ret.op = "from_neurons" =>
        \A a \in Range(all_actions) :
            _to_neurons[a] = <<ret.arg>> => ret.result = Returned(a)

\* C10: a.to_neurons(), for a at index idx of all_actions, returns a vector
\* as long as all_actions (which is what n_neurons returns) with 1 at idx
\* and 0 elsewhere, at the first call and, served from the cache, at every
\* later call.
C10_OneHot ==
    /\ ret.op = "to_neurons" =>
          LET v == ret.result.value
              place == IndexOf(all_actions, ret.arg)
          IN /\ ret.result.raised = "none"
             /\ Len(v) = Len(all_actions)
             /\ \A k \in 1..Len(v) : v[k] = IF k = place THEN 1 ELSE 0
             /\ _n_neurons # <<>> => Len(v) = _n_neurons[1]
             /\ _to_neurons[ret.arg] = <<v>>
    /\ ret.op = "n_neurons" => ret.result = Returned(Len(all_actions))

\* A second call of to_neurons on the middle action of three.
C10_Witness ==
    /\ ret.op = "to_neurons"
    /\ ret.cached
    /\ Len(all_actions) = 3
    /\ ret.arg = all_actions[2]
    /\ ret.result.value = <<0, 1, 0>>
    /\ _n_neurons = <<3>>

\* The number of entries of the vector that equal 1.
ActiveEntries(neurons) == Cardinality({k \in 1..Len(neurons) : neurons[k] = 1})

\* C11: from_neurons raises ValueError, and returns nothing, whenever the
\* vector has no unique active index: no entry equal to 1, or more than one.
C11_NoUniqueActiveIndex ==
    (ret.op = "from_neurons" /\ ActiveEntries(ret.arg) # 1) =>
        ret.result = Raised("ValueError")

\* C14: a < b holds exactly when a stands before b in all_actions; it never
\* holds for a and a, and for two distinct actions exactly one of a < b and
\* b < a holds.
C14_OrderByIndex ==
    ret.op = "lt" =>
        LET a == ret.arg[1]
            b == ret.arg[2]
            Place(x) == CHOOSE k \in 1..Len(all_actions) : all_actions[k] = x
        IN /\ ret.result.raised = "none"
           /\ ret.result.value = (Place(a) < Place(b))
           /\ a = b => ~ret.result.value
           /\ a # b => (ret.result.value = ~lt(all_actions, b, a))

\* The first of three actions compared with the last.
C14_Witness ==
    /\ ret.op = "lt"
    /\ Len(all_actions) = 3
    /\ ret.arg = <<all_actions[1], all_actions[3]>>
    /\ ret.result = Returned(TRUE)

\* C16: for an action whose string form is not empty, slugify returns (its
\* assertion does not fail) a non-empty string whose first character is a
\* letter, a digit or the dot and whose later characters are letters,
\* digits or one of _ . - / >
C16_SlugMatches ==
    (ret.op = "slugify" /\ ret.arg # <<>>) =>
        /\ ret.result.raised = "none"
        /\ ret.result.value # <<>>
        /\ ret.result.value[1] \in {"a", "0", "."}
        /\ \A k \in 2..Len(ret.result.value) :
              ret.result.value[k] \in {"a", "0", ".", "_", "-", "/", ">"}

\* A string that needs the prefix and a substitution.
C16_Witness ==
    /\ ret.op = "slugify"
    /\ ret.arg = <<"_", " ", "a">>
    /\ ret.result = Returned(<<"0", "_", "-", "a">>)

\* C17: slugify leaves a string that matches the pattern as it is, and so
\* the slug of a slug is that slug.
C17_SlugIdempotent ==
    ret.op = "slugify" =>
        /\ _action_regex(ret.arg) => ret.result = Returned(ret.arg)
        /\ ret.result.raised = "none" =>
              slugify(ret.result.value) = Returned(ret.result.value)

\* A slug (with prefix and placeholder) given to slugify again.
C17_Witness ==
    /\ ret.op = "slugify"
    /\ ret.arg = <<"0", "_", "-">>
    /\ ret.result = Returned(<<"0", "_", "-">>)

\* C12: get_next_state_from_actions is never called with an action that is
\* not one of the legal actions of the observation its player decided on.
C12_IllegalActionRejected ==
    (turn # <<>> /\ turn[1].rule_called) =>
        \A k \in 1..Len(turn[1].on.player_infos) :
            LET p == turn[1].on.player_infos[k]
            IN p.id \in DOMAIN turn[1].player_id_to_action =>
                  turn[1].player_id_to_action[p.id]
                      \in Range(legal_actions(p.observation))

\* C13: when a value query of a batched turn raises, the exception leaves
\* get_next_state: no later group is queried and the failed query is not
\* repeated, no decide call is made, get_next_state_from_actions is not
\* called and `state` keeps the state the turn was asked for; and a batched
\* turn that resolves has the value-maps of every one of its groups.
C13_QueryFailureFailsTurn ==
    /\ (turn # <<>> /\ turn[1].failed.phase = "qs") =>
          /\ pc \in {"raised", "closed"}
          /\ turn[1].class = "NiceState"
          /\ Len(turn[1].qs_calls) = turn[1].failed.at
          /\ \A g, h \in 1..Len(turn[1].qs_calls) :
                turn[1].qs_calls[g].strategy = turn[1].qs_calls[h].strategy => g = h
          /\ turn[1].decide_calls = <<>>
          /\ ~turn[1].rule_called
          /\ state = turn[1].on
    /\ (TurnComputed /\ turn[1].class = "NiceState") =>
          /\ turn[1].failed = NoFailure
          /\ Len(turn[1].qs_calls) =
                Len(strategy_to_ids_and_player_infos(turn[1].on.player_infos))
          /\ \A g \in 1..Len(turn[1].qs_calls) :
                Len(turn[1].qs_calls[g].q_maps) = Len(turn[1].qs_calls[g].ids)

\* The query of the second group raised after the first group's query had
\* returned its value-map.
C13_Witness ==
    /\ pc = "raised"
    /\ turn # <<>>
    /\ turn[1].failed = [phase |-> "qs", at |-> 2]
    /\ Len(turn[1].qs_calls[1].q_maps) = 1
    /\ turn[1].qs_calls[2].q_maps = <<>>

\* The exception has left train.
Failed == pc \in {"raised", "closed"}

\* C20: a turn that raises does so while the consumer asks for a next state;
\* the states yielded before stay yielded, and afterwards train yields
\* nothing, starts no rollout (no notification, no factory call) and never
\* prints the completion notification.
C20_FailureEndsTrain ==
    /\ [](Failed =>
            /\ turn # <<>>
            /\ turn[1].failed # NoFailure
            /\ rollout_yielded >= 1
            /\ yielded # <<>>
            /\ printed = [rounds |-> i + 1, dones |-> 0]
            /\ factory_calls = i + 1)
    /\ [][(pc = "advance" /\ pc' = "raised") =>
             (yielded' = yielded /\ total_yielded' = total_yielded)]_vars
    /\ [][Failed =>
             /\ pc' = "closed"
             /\ UNCHANGED <<i, yielded, rollout_yielded, total_yielded,
                            printed, factory_calls>>]_vars

\* The first rollout of two failed after a state was yielded, and the
\* consumer asked again.
C20_Witness ==
    /\ pc = "closed"
    /\ n = 2
    /\ i = 0
    /\ total_yielded >= 1
    /\ turn[1].failed.phase = "decide"

\* C18: the factory has been called once for every rollout begun, n times
\* when train has ended; between two rollouts train holds no state; the
\* rollout's iterate_states starts on the product of the rollout's own
\* factory call, and every state it yields is a successor of that product.
C18_OneFactoryCallPerRollout ==
    /\ pc = "done" => factory_calls = n
    /\ pc \in {"for", "done", "factory"} =>
          /\ factory_calls = i
          /\ state = NoState
    /\ pc = "factory" => (yielded = <<>> /\ rollout_yielded = 0 /\ start = NoState)
    /\ pc \in {"islice", "while", "yielded", "advance"} =>
          /\ factory_calls = i + 1
          /\ start \in InitialStates
          /\ rollout_yielded = 0 => state = start
    /\ pc = "yielded" =>
          \E k \in 0..(max_game_length - 1) : yielded = <<Chain(start, k)>>

\* The second rollout of train(n=2) yields a state of its own factory
\* product after the first rollout had yielded two states.
C18_Witness ==
    /\ pc = "yielded"
    /\ n = 2
    /\ i = 1
    /\ factory_calls = 2
    /\ total_yielded = 3
    /\ rollout_yielded = 1
    /\ yielded = <<start>>

\* C19: a rollout cut by the cap after max_game_length yielded states has
\* called get_next_state max_game_length - 1 times (never with
\* max_game_length = 0); a rollout that ended by itself after k yielded
\* states has k < max_game_length and has called get_next_state k times;
\* and a transition is computed only when the state after it is asked for.
C19_TransitionsOnDemand ==
    /\ (pc = "for" /\ ended_by = "cap") =>
          /\ rollout_yielded = max_game_length
          /\ calls = (IF max_game_length = 0 THEN 0 ELSE max_game_length - 1)
          /\ max_game_length = 0 => turn = <<>>
    /\ (pc = "for" /\ ended_by = "exhausted") =>
          /\ rollout_yielded < max_game_length
          /\ calls = rollout_yielded
    /\ pc \in {"islice", "yielded", "advance"} =>
          calls = (IF rollout_yielded = 0 THEN 0 ELSE rollout_yielded - 1)
    /\ pc = "while" => calls = rollout_yielded

\* A rollout of a game that goes on, cut after three yielded states and two
\* transitions.
C19_Witness ==
    /\ pc = "for"
    /\ ended_by = "cap"
    /\ max_game_length = 3
    /\ rollout_yielded = 3
    /\ calls = 2
    /\ turn # <<>>
    /\ get_next_state(cls, yielded[1]).player_infos # <<>>

\* C15: whatever has been consumed of the two iterate_states generators
\* made on one state, that state is never changed, and each generator has
\* yielded the state itself first and then its successors in order (so one
\* generator's output is a prefix of the other's), and has returned only
\* where the chain has no players.
C15_FreshSequences ==
    /\ [][starting_state' = starting_state]_vars
    /\ [](\A g \in Generators :
            /\ \A k \in 1..Len(generators[g].out) :
                  generators[g].out[k] = Chain(starting_state, k - 1)
            /\ (generators[g].pc = "returned") =>
                  Chain(starting_state, Len(generators[g].out)).player_infos = <<>>
            /\ \A h \in Generators :
                  \A k \in 1..Len(generators[g].out) :
                      k <= Len(generators[h].out) =>
                          generators[g].out[k] = generators[h].out[k])

\* Generator 1 was consumed to its end (two states); generator 2 has
\* yielded the same two states, the second being a new state.
C15_Witness ==
    /\ generators[1].pc = "returned"
    /\ Len(generators[1].out) = 2
    /\ generators[2].pc = "yielded"
    /\ generators[2].out = generators[1].out
    /\ generators[1].out[1] = starting_state
    /\ generators[1].out[2] # starting_state

====
